---- MODULE Spec2Model ----
(***************************************************************************)
(* Model of the earnings-call pipeline of src/opai1.py: the transcript     *)
(* parser parse_transcript (preprocessor loop, header scan, block          *)
(* assembly, whole-text fallback), the role lookup _normalize_role and the *)
(* per-file / per-block loop of main.                                      *)
(*                                                                         *)
(* A Python str is a sequence of characters; a character is a one-element  *)
(* string.  The three regular expressions of the source are written as     *)
(* pattern trees and run by a backtracking matcher that tries the          *)
(* alternatives in the order Python's re module tries them.                *)
(***************************************************************************)
EXTENDS Integers, Sequences, FiniteSets, TLC

\* ------------------------------------------------------------------ bounds
\* Longest transcript, in lines, that Init draws.
MaxLines == 4
\* Longest role phrase, in tokens, that InitRole draws.
MaxTokens == 2
\* Most transcript files in the directory that InitMain draws.
MaxFiles == 2
\* The block cap of the source (8000 there), scaled down so that bodies of a
\* few short lines are cut.
MAX_CHARS_PER_BLOCK == 8

\* -------------------------------------------------------------- characters
LowerLetters == <<"a", "b", "c", "d", "e", "f", "g", "h", "i", "j", "k", "l", "m", "n", "o", "p", "q", "r", "s", "t", "u", "v", "w", "x", "y", "z">>
UpperLetters == <<"A", "B", "C", "D", "E", "F", "G", "H", "I", "J", "K", "L", "M", "N", "O", "P", "Q", "R", "S", "T", "U", "V", "W", "X", "Y", "Z">>

\* str.lower() / str.upper() on one character.
CharLower(c) ==
  IF \E k \in 1..26 : UpperLetters[k] = c
    THEN LowerLetters[CHOOSE k \in 1..26 : UpperLetters[k] = c]
    ELSE c

CharUpper(c) ==
  IF \E k \in 1..26 : LowerLetters[k] = c
    THEN UpperLetters[CHOOSE k \in 1..26 : LowerLetters[k] = c]
    ELSE c

StrLower(s) == [k \in 1..Len(s) |-> CharLower(s[k])]
StrUpper(s) == [k \in 1..Len(s) |-> CharUpper(s[k])]

\* The characters str.isspace() and the pattern \s accept.
Whitespace == {" ", "\t", "\n", "\r", "\f"}
Digits == {"0", "1", "2", "3", "4", "5", "6", "7", "8", "9"}

\* ---------------------------------------------------------------- str ops
\* s[a:b] of Python, with 1-based inclusive ends.
Slice(s, a, b) == IF a > b THEN <<>> ELSE SubSeq(s, a, b)

\* str.strip(): drop the leading and the trailing run of whitespace.
Strip(s) ==
  LET nonws == {k \in 1..Len(s) : s[k] \notin Whitespace}
  IN IF nonws = {} THEN <<>>
     ELSE LET lo == CHOOSE k \in nonws : \A j \in nonws : k <= j
              hi == CHOOSE k \in nonws : \A j \in nonws : k >= j
          IN SubSeq(s, lo, hi)

\* str.startswith(p)
StartsWith(s, p) == Len(s) >= Len(p) /\ SubSeq(s, 1, Len(p)) = p

\* p in s
Contains(s, p) ==
  \E k \in 0..(Len(s) - Len(p)) : SubSeq(s, k + 1, k + Len(p)) = p

\* "\n".join(ls)
RECURSIVE JoinLines(_)
JoinLines(ls) ==
  IF ls = <<>> THEN <<>>
  ELSE IF Len(ls) = 1 THEN ls[1]
  ELSE ls[1] \o <<"\n">> \o JoinLines(Tail(ls))

\* str.splitlines(): cut at "\n", "\r" and "\r\n"; no empty last line after
\* a final line break.
RECURSIVE SplitFrom(_, _, _)
SplitFrom(s, pos, cur) ==
  IF pos > Len(s) THEN (IF cur = <<>> THEN <<>> ELSE <<cur>>)
  ELSE IF s[pos] = "\r" /\ pos < Len(s) /\ s[pos + 1] = "\n"
    THEN <<cur>> \o SplitFrom(s, pos + 2, <<>>)
  ELSE IF s[pos] \in {"\n", "\r", "\f"}
    THEN <<cur>> \o SplitFrom(s, pos + 1, <<>>)
  ELSE SplitFrom(s, pos + 1, Append(cur, s[pos]))

splitlines(s) == SplitFrom(s, 1, <<>>)

\* ------------------------------------------------------- pattern matching
\* Pattern nodes.  A class accepts one character c when the case-folded c is
\* in `set` (or is not, when `neg`): every pattern of the source is compiled
\* with re.IGNORECASE.
Cls(S) == [t |-> "cls", set |-> S, neg |-> FALSE]
NotCls(S) == [t |-> "cls", set |-> S, neg |-> TRUE]
\* c{min,} greedy / lazy over a class
Rep(cls, min) == [t |-> "rep", cls |-> cls, min |-> min, greedy |-> TRUE]
LazyRep(cls, min) == [t |-> "rep", cls |-> cls, min |-> min, greedy |-> FALSE]
\* (?: parts )?
Opt(parts) == [t |-> "opt", parts |-> parts]
\* (?: a | b )
Alt(a, b) == [t |-> "alt", a |-> a, b |-> b]
\* (?P<name> parts )
Grp(name, parts) == [t |-> "grp", name |-> name, parts |-> parts]
GrpEnd(name, start) == [t |-> "end", name |-> name, start |-> start]
\* $
Eol == [t |-> "eol"]
\* a literal word, one class per character
Word(w) == [k \in 1..Len(w) |-> Cls({CharLower(w[k])})]

Space == Cls(Whitespace)
Dot == NotCls({"\n"})

InClass(cls, c) == (CharLower(c) \in cls.set) # cls.neg

\* Length of the longest run of characters of cls that starts at pos.
RECURSIVE RunLen(_, _, _)
RunLen(cls, s, pos) ==
  IF pos <= Len(s) /\ InClass(cls, s[pos]) THEN 1 + RunLen(cls, s, pos + 1) ELSE 0

GroupNames == {"operator", "name", "roles", "g1"}
NoGroups == [g \in GroupNames |-> [set |-> FALSE, text |-> <<>>]]
NoMatch == [ok |-> FALSE, groups |-> NoGroups]

\* Run `parts` on s from pos: the first match in backtracking order, with
\* the text of each group it went through, or NoMatch.
RECURSIVE MatchFrom(_, _, _, _)
RECURSIVE TryCounts(_, _, _, _, _, _, _)
TryCounts(rest, s, pos, groups, k, last, step) ==
  LET r == MatchFrom(rest, s, pos + k, groups)
  IN IF r.ok \/ k = last THEN r
     ELSE TryCounts(rest, s, pos, groups, k + step, last, step)

MatchFrom(parts, s, pos, groups) ==
  IF parts = <<>> THEN [ok |-> TRUE, groups |-> groups]
  ELSE
    LET h == Head(parts)
        rest == Tail(parts)
    IN CASE h.t = "cls" ->
              IF pos <= Len(s) /\ InClass(h, s[pos])
                THEN MatchFrom(rest, s, pos + 1, groups)
                ELSE NoMatch
         [] h.t = "rep" ->
              LET m == RunLen(h.cls, s, pos)
              IN IF m < h.min THEN NoMatch
                 ELSE IF h.greedy
                   THEN TryCounts(rest, s, pos, groups, m, h.min, -1)
                   ELSE TryCounts(rest, s, pos, groups, h.min, m, 1)
         [] h.t = "opt" ->
              LET r == MatchFrom(h.parts \o rest, s, pos, groups)
              IN IF r.ok THEN r ELSE MatchFrom(rest, s, pos, groups)
         [] h.t = "alt" ->
              LET r == MatchFrom(h.a \o rest, s, pos, groups)
              IN IF r.ok THEN r ELSE MatchFrom(h.b \o rest, s, pos, groups)
         [] h.t = "grp" ->
              MatchFrom(h.parts \o <<GrpEnd(h.name, pos)>> \o rest, s, pos, groups)
         [] h.t = "end" ->
              MatchFrom(rest, s, pos,
                        [groups EXCEPT ![h.name] =
                           [set |-> TRUE, text |-> Slice(s, h.start, pos - 1)]])
         [] h.t = "eol" ->
              IF pos = Len(s) + 1 \/ (pos = Len(s) /\ s[pos] = "\n")
                THEN MatchFrom(rest, s, pos, groups)
                ELSE NoMatch

\* pattern.match(s)
ReMatch(pattern, s) == MatchFrom(pattern, s, 1, NoGroups)

\* SEPARATOR_RE = ^\s*[-=]{3,}\s*$
SEPARATOR_RE ==
  <<Rep(Space, 0), Rep(Cls({"-", "="}), 3), Rep(Space, 0), Eol>>

\* SECTION_RE = ^\s*(presentation|q[-\s]*and[-\s]*a)\s*$
SECTION_RE ==
  <<Rep(Space, 0),
    Grp("g1",
        <<Alt(Word(<<"p", "r", "e", "s", "e", "n", "t", "a", "t", "i", "o", "n">>),
              Word(<<"q">>) \o <<Rep(Cls({"-"} \cup Whitespace), 0)>>
                \o Word(<<"a", "n", "d">>) \o <<Rep(Cls({"-"} \cup Whitespace), 0)>>
                \o Word(<<"a">>))>>),
    Rep(Space, 0), Eol>>

\* HEADER_RE: "Operator" with an optional comma and index, or
\* "Name, Affiliation - Roles [idx]".  EmDash and EnDash stand for the two
\* non-ASCII dashes of the pattern.
EmDash == "EMDASH"
EnDash == "ENDASH"
IndexTag == <<Cls({"["}), Rep(Cls(Digits), 1), Cls({"]"})>>
HEADER_RE ==
  <<Rep(Space, 0),
    Alt(<<Grp("operator", Word(<<"O", "p", "e", "r", "a", "t", "o", "r">>)),
          Rep(Space, 0), Opt(<<Cls({","})>>), Rep(Space, 0), Opt(IndexTag)>>,
        <<Grp("name", <<LazyRep(Dot, 1)>>), Rep(Space, 0), Cls({","}), Rep(Space, 0),
          LazyRep(Dot, 1), Cls({"-", EmDash, EnDash}), Rep(Space, 0),
          Grp("roles", <<LazyRep(NotCls({"["}), 1)>>),
          Opt(<<Rep(Space, 1)>> \o IndexTag)>>),
    Rep(Space, 0), Eol>>


\* ROLE_MAP with the abbreviations listed ahead of the long titles.
ROLE_MAP_AbbreviationsFirst ==
  << [key |-> <<"C", "E", "O">>, short |-> "CEO"],
     [key |-> <<"C", "F", "O">>, short |-> "CFO"],
     [key |-> <<"C", "H", "I", "E", "F", " ", "E", "X", "E", "C", "U", "T", "I", "V", "E", " ", "O", "F", "F", "I", "C", "E", "R">>, short |-> "CEO"],
     [key |-> <<"C", "H", "I", "E", "F", " ", "F", "I", "N", "A", "N", "C", "I", "A", "L", " ", "O", "F", "F", "I", "C", "E", "R">>, short |-> "CFO"],
     [key |-> <<"A", "N", "A", "L", "Y", "S", "T">>, short |-> "ANALYST"],
     [key |-> <<"O", "P", "E", "R", "A", "T", "O", "R">>, short |-> "OPERATOR"],
     [key |-> <<"I", "N", "V", "E", "S", "T", "O", "R", " ", "R", "E", "L", "A", "T", "I", "O", "N", "S">>, short |-> "IR"] >>

\* ROLE_MAP, in insertion order: keyword, canonical role.
ROLE_MAP ==
  << [key |-> <<"C", "H", "I", "E", "F", " ", "E", "X", "E", "C", "U", "T", "I", "V", "E", " ", "O", "F", "F", "I", "C", "E", "R">>, short |-> "CEO"],
     [key |-> <<"C", "H", "I", "E", "F", " ", "F", "I", "N", "A", "N", "C", "I", "A", "L", " ", "O", "F", "F", "I", "C", "E", "R">>, short |-> "CFO"],
     [key |-> <<"C", "E", "O">>, short |-> "CEO"],
     [key |-> <<"C", "F", "O">>, short |-> "CFO"],
     [key |-> <<"A", "N", "A", "L", "Y", "S", "T">>, short |-> "ANALYST"],
     [key |-> <<"O", "P", "E", "R", "A", "T", "O", "R">>, short |-> "OPERATOR"],
     [key |-> <<"I", "N", "V", "E", "S", "T", "O", "R", " ", "R", "E", "L", "A", "T", "I", "O", "N", "S">>, short |-> "IR"] >>

\* The for loop of _normalize_role from entry k on: the first entry whose key
\* is in `joined`, by its return statement; 0 when the loop runs out.
RECURSIVE RoleLoop(_, _)
RoleLoop(joined, k) ==
  IF k > Len(ROLE_MAP) THEN 0
  ELSE IF Contains(joined, ROLE_MAP[k].key) THEN k
  ELSE RoleLoop(joined, k + 1)

\* _normalize_role, with the return statement that produced the result.
NormalizeRun(raw) ==
  IF raw = <<>> THEN [role |-> "UNKNOWN", ret |-> "empty"]
  ELSE
    LET joined == StrUpper(raw)
        k == RoleLoop(joined, 1)
    IN IF k # 0 THEN [role |-> ROLE_MAP[k].short, ret |-> "table"]
       ELSE IF Contains(joined, <<"A", "N", "A", "L", "Y", "S", "T">>)
         THEN [role |-> "ANALYST", ret |-> "fallback"]
       ELSE [role |-> "UNKNOWN", ret |-> "unknown"]

_normalize_role(raw) == NormalizeRun(raw).role

\* ------------------------------------------------------------ parser steps
\* The lines transcripts are drawn from: blank, separator, section marker,
\* roster bullet, the two header shapes, and body text with and without
\* surrounding whitespace.
LineCatalog ==
  { <<>>,
    <<"-", "-", "-">>,
    <<"Q", " ", "a", "n", "d", " ", "A">>,
    <<"*", " ", "A", "l">>,
    <<"O", "p", "e", "r", "a", "t", "o", "r">>,
    <<"A", "l", ",", " ", "X", " ", "-", " ", "C", "F", "O", " ", "[", "1", "]">>,
    <<" ", "h", "i", " ">>,
    <<"o", "k">> }

\* f"##SECTION::{m.group(1).lower()}" for a match m of SECTION_RE
SectionTag == <<"#", "#", "S", "E", "C", "T", "I", "O", "N", ":", ":">>
Rewritten(m) == SectionTag \o StrLower(m.groups["g1"].text)

\* The catalog lines and their rewritten forms, with the three patterns run
\* once on each; any other line is matched when it is met.
KnownLines ==
  LineCatalog \cup
    {Rewritten(ReMatch(SECTION_RE, l)) : l \in {c \in LineCatalog : ReMatch(SECTION_RE, c).ok}}
SeparatorTable == [l \in KnownLines |-> ReMatch(SEPARATOR_RE, l)]
SectionTable == [l \in KnownLines |-> ReMatch(SECTION_RE, l)]
HeaderTable == [l \in KnownLines |-> ReMatch(HEADER_RE, l)]

\* SEPARATOR_RE.match(line), SECTION_RE.match(line), HEADER_RE.match(line)
SeparatorRun(line) ==
  IF line \in KnownLines THEN SeparatorTable[line] ELSE ReMatch(SEPARATOR_RE, line)
SectionRun(line) ==
  IF line \in KnownLines THEN SectionTable[line] ELSE ReMatch(SECTION_RE, line)
HeaderRun(line) ==
  IF line \in KnownLines THEN HeaderTable[line] ELSE ReMatch(HEADER_RE, line)

SeparatorMatch(line) == SeparatorRun(line).ok
SectionMatch(line) == SectionRun(line).ok
SectionLine(line) == Rewritten(SectionRun(line))

\* line.strip().startswith("* ")
IsBullet(line) == StartsWith(Strip(line), <<"*", " ">>)

\* PreStep with a section marker that leaves skip mode as it is.
PreStep_SectionKeepsSkip(line, cleaned, skip) ==
  IF SectionMatch(line)
    THEN [cleaned |-> Append(cleaned, SectionLine(line)), skip |-> skip]
  ELSE
    LET skip1 == skip \/ IsBullet(line)
    IN IF skip1
         THEN [cleaned |-> cleaned,
               skip |-> ~(Strip(line) = <<>> \/ SeparatorMatch(line))]
         ELSE [cleaned |-> Append(cleaned, line), skip |-> skip1]

\* One pass of the pre-clean loop body over `line`.
PreStep(line, cleaned, skip) ==
  IF SectionMatch(line)
    THEN [cleaned |-> Append(cleaned, SectionLine(line)), skip |-> FALSE]
  ELSE
    LET skip1 == skip \/ IsBullet(line)
    IN IF skip1
         THEN [cleaned |-> cleaned,
               skip |-> ~(Strip(line) = <<>> \/ SeparatorMatch(line))]
         ELSE [cleaned |-> Append(cleaned, line), skip |-> skip1]

\* One pass of the header-scan loop body over lines[i] (positions from 1).
ScanStep(line, i, hdrs) ==
  IF SeparatorMatch(line) THEN hdrs
  ELSE IF SectionMatch(line)
    THEN Append(hdrs, [kind |-> "SECTION", pos |-> i, role |-> "None"])
  ELSE
    LET m == HeaderRun(line)
    IN IF m.ok
         THEN LET role == IF m.groups["operator"].set /\ m.groups["operator"].text # <<>>
                            THEN "OPERATOR"
                            ELSE _normalize_role(m.groups["roles"].text)
              IN Append(hdrs, [kind |-> "SPEAKER", pos |-> i, role |-> role])
         ELSE hdrs

\* body_start: the line after the header, one further past a separator.
BodyStart(lines, start_i) ==
  IF start_i + 1 <= Len(lines) /\ SeparatorMatch(lines[start_i + 1])
    THEN start_i + 2
    ELSE start_i + 1

\* NextMark that runs every body to the end of the transcript.
NextMark_ToEnd(lines, hdrs, k) == Len(lines) + 1

\* body_end before trimming: the next header of any kind, else one past the
\* last line.
NextMark(lines, hdrs, k) ==
  IF k + 1 <= Len(hdrs) THEN hdrs[k + 1].pos ELSE Len(lines) + 1

\* The while loop that backs body_end up over trailing separators.  The body
\* is the lines body_start .. body_end - 1.
RECURSIVE TrimEnd(_, _, _)
TrimEnd(lines, bstart, bend) ==
  IF bend > bstart /\ SeparatorMatch(lines[bend - 1])
    THEN TrimEnd(lines, bstart, bend - 1)
    ELSE bend

\* [l for l in ls if not SEPARATOR_RE.match(l)]
RECURSIVE DropSeparators(_)
DropSeparators(ls) ==
  IF ls = <<>> THEN <<>>
  ELSE IF SeparatorMatch(Head(ls)) THEN DropSeparators(Tail(ls))
  ELSE <<Head(ls)>> \o DropSeparators(Tail(ls))

\* BodyOf without the strip.
BodyOf_NoStrip(lines, bstart, bend) ==
  JoinLines(DropSeparators(Slice(lines, bstart, bend - 1)))

\* "\n".join(l for l in lines[body_start:body_end] if not separator).strip()
BodyOf(lines, bstart, bend) ==
  Strip(JoinLines(DropSeparators(Slice(lines, bstart, bend - 1))))

\* Truncate that keeps one character too many.
Truncate_OneMore(b) ==
  IF Len(b) > MAX_CHARS_PER_BLOCK THEN SubSeq(b, 1, MAX_CHARS_PER_BLOCK + 1) ELSE b

\* body[:MAX_CHARS_PER_BLOCK]
Truncate(b) ==
  IF Len(b) > MAX_CHARS_PER_BLOCK THEN SubSeq(b, 1, MAX_CHARS_PER_BLOCK) ELSE b

\* FallbackBodyOf that leaves the separator lines in.
FallbackBodyOf_KeepSeparators(lines) == Strip(JoinLines(lines))

\* The body of the whole-text fallback.
FallbackBodyOf(lines) == Strip(JoinLines(DropSeparators(lines)))


\* ------------------------------------------------------------------ inputs
\* All sequences over S of length at most n.
RECURSIVE SeqsUpTo(_, _)
SeqsUpTo(S, n) ==
  IF n = 0 THEN {<<>>}
  ELSE LET shorter == SeqsUpTo(S, n - 1)
       IN shorter \cup {Append(q, x) : q \in {r \in shorter : Len(r) = n - 1}, x \in S}

Transcripts == {JoinLines(ls) : ls \in SeqsUpTo(LineCatalog, MaxLines)}

\* The pieces role phrases are built from.
RoleTokens ==
  { <<"C", "h", "i", "e", "f", " ", "E", "x", "e", "c", "u", "t", "i", "v", "e", " ", "O", "f", "f", "i", "c", "e", "r">>,
    <<"c", "h", "i", "e", "f", " ", "f", "i", "n", "a", "n", "c", "i", "a", "l", " ", "o", "f", "f", "i", "c", "e", "r">>,
    <<"C", "E", "O">>,
    <<"c", "f", "o">>,
    <<"A", "n", "a", "l", "y", "s", "t">>,
    <<"O", "p", "e", "r", "a", "t", "o", "r">>,
    <<"I", "n", "v", "e", "s", "t", "o", "r", " ", "R", "e", "l", "a", "t", "i", "o", "n", "s">>,
    <<"V", "P">>,
    <<",", " ">>,
    <<"A", "N", "A">>,
    <<"L", "Y", "S", "T">> }

RECURSIVE Concat(_)
Concat(ss) == IF ss = <<>> THEN <<>> ELSE Head(ss) \o Concat(Tail(ss))

RolePhrases == {Concat(ts) : ts \in SeqsUpTo(RoleTokens, MaxTokens)}

\* What a transcript file can hold (before main strips it).
FileTexts ==
  { <<>>,
    <<"o", "k", "\n">>,
    <<"\n", "O", "p", "e", "r", "a", "t", "o", "r", "\n", "o", "k", "\n",
      "A", "l", ",", " ", "X", " ", "-", " ", "C", "F", "O", " ", "[", "1", "]", "\n", " ", "h", "i", " ", "\n">>,
    <<"*", " ", "A", "l", "\n", "\n", "O", "p", "e", "r", "a", "t", "o", "r", "\n", "-", "-", "-", "\n",
      "o", "k", "\n", "Q", " ", "a", "n", "d", " ", "A">> }

\* What one call of analyse_block can do: return the five sentiment fields,
\* return parse_model_json's error dict, or raise.
ClassifierOutcomes == {"fields", "json_error", "raise"}

\* ------------------------------------------------------------------- state
VARIABLES
  text,           \* parse_transcript: the argument
  raw_lines,      \* text.splitlines()
  li,             \* position of the pre-clean loop in raw_lines
  cleaned_lines,  \* cleaned_lines, later also named lines
  skip_mode,
  i,              \* position of the header scan (lines are numbered from 1)
  headers,        \* sequence of [kind, pos, role]
  idx,            \* position of the block loop in headers
  body_start,
  body_end,
  body,
  blocks,         \* sequence of [speaker_role, text]
  pc,             \* where parse_transcript stands
  raw_roles,      \* _normalize_role: the argument
  role_run,       \* _normalize_role: result and the return that gave it
  rpc,            \* where _normalize_role stands
  files,          \* main: contents of the .txt files, in listing order
  fi,             \* main: position of the file loop
  bi,             \* main: enumerate(blocks, start=1)
  rows,           \* main: the output rows
  mpc             \* where main stands

parseVars == <<text, raw_lines, li, cleaned_lines, skip_mode, i, headers, idx,
               body_start, body_end, body, blocks, pc>>
roleVars == <<raw_roles, role_run, rpc>>
mainVars == <<files, fi, bi, rows, mpc>>
vars == <<parseVars, roleVars, mainVars>>

\* Python's None, and a present value, for the optional fields.
None == <<>>
Some(v) == <<v>>

ParseIdle ==
  /\ raw_lines = <<>> /\ li = 1 /\ cleaned_lines = <<>> /\ skip_mode = FALSE
  /\ i = 1 /\ headers = <<>> /\ idx = 1 /\ body_start = 1 /\ body_end = 1
  /\ body = <<>> /\ blocks = <<>>
RoleIdle == raw_roles = <<>> /\ role_run = [role |-> "", ret |-> ""] /\ rpc = "idle"
MainIdle == files = <<>> /\ fi = 1 /\ bi = 1 /\ rows = <<>> /\ mpc = "idle"

\* parse_transcript called on a transcript.
Init ==
  /\ text \in Transcripts
  /\ pc = "call"
  /\ ParseIdle /\ RoleIdle /\ MainIdle

\* ------------------------------------------------------- parse_transcript
\* Entry: split the text and start the pre-clean loop.
Enter ==
  /\ pc = "call"
  /\ raw_lines' = splitlines(text)
  /\ li' = 1
  /\ cleaned_lines' = <<>>
  /\ skip_mode' = FALSE
  /\ pc' = "pre"
  /\ UNCHANGED <<text, i, headers, idx, body_start, body_end, body, blocks>>
  /\ UNCHANGED <<roleVars, mainVars>>

\* One iteration of the pre-clean loop.
PreprocessLine ==
  /\ pc = "pre"
  /\ li <= Len(raw_lines)
  /\ LET r == PreStep(raw_lines[li], cleaned_lines, skip_mode)
     IN /\ cleaned_lines' = r.cleaned
        /\ skip_mode' = r.skip
  /\ li' = li + 1
  /\ UNCHANGED <<text, raw_lines, i, headers, idx, body_start, body_end, body, blocks, pc>>
  /\ UNCHANGED <<roleVars, mainVars>>

\* The pre-clean loop ends; the header scan starts.
PreprocessDone ==
  /\ pc = "pre"
  /\ li > Len(raw_lines)
  /\ i' = 1
  /\ headers' = <<>>
  /\ pc' = "scan"
  /\ UNCHANGED <<text, raw_lines, li, cleaned_lines, skip_mode, idx, body_start, body_end, body, blocks>>
  /\ UNCHANGED <<roleVars, mainVars>>

\* One iteration of the header scan.
ScanLine ==
  /\ pc = "scan"
  /\ i <= Len(cleaned_lines)
  /\ headers' = ScanStep(cleaned_lines[i], i, headers)
  /\ i' = i + 1
  /\ UNCHANGED <<text, raw_lines, li, cleaned_lines, skip_mode, idx, body_start, body_end, body, blocks, pc>>
  /\ UNCHANGED <<roleVars, mainVars>>

\* The header scan ends; the block loop starts.
ScanDone ==
  /\ pc = "scan"
  /\ i > Len(cleaned_lines)
  /\ blocks' = <<>>
  /\ idx' = 1
  /\ pc' = "build"
  /\ UNCHANGED <<text, raw_lines, li, cleaned_lines, skip_mode, i, headers, body_start, body_end, body>>
  /\ UNCHANGED <<roleVars, mainVars>>

\* Block loop, first half: skip a non-speaker header, else find the body.
BuildBody ==
  /\ pc = "build"
  /\ idx <= Len(headers)
  /\ IF headers[idx].kind # "SPEAKER"
       THEN /\ idx' = idx + 1
            /\ UNCHANGED <<body_start, body_end, body, pc>>
       ELSE LET bs == BodyStart(cleaned_lines, headers[idx].pos)
                be == TrimEnd(cleaned_lines, bs, NextMark(cleaned_lines, headers, idx))
            IN /\ body_start' = bs
               /\ body_end' = be
               /\ body' = BodyOf(cleaned_lines, bs, be)
               /\ pc' = "emit"
               /\ UNCHANGED idx
  /\ UNCHANGED <<text, raw_lines, li, cleaned_lines, skip_mode, i, headers, blocks>>
  /\ UNCHANGED <<roleVars, mainVars>>

\* Block loop, second half: drop an empty body, else cut and append it.
EmitBlock ==
  /\ pc = "emit"
  /\ IF body = <<>>
       THEN UNCHANGED <<body, blocks>>
       ELSE /\ body' = Truncate(body)
            /\ blocks' = Append(blocks,
                 [speaker_role |-> IF headers[idx].role = "" THEN "UNKNOWN" ELSE headers[idx].role,
                  text |-> Truncate(body)])
  /\ idx' = idx + 1
  /\ pc' = "build"
  /\ UNCHANGED <<text, raw_lines, li, cleaned_lines, skip_mode, i, headers, body_start, body_end>>
  /\ UNCHANGED <<roleVars, mainVars>>

\* After the block loop with no block built: join the whole cleaned text.
FallbackBody ==
  /\ pc = "build"
  /\ idx > Len(headers)
  /\ blocks = <<>>
  /\ body' = FallbackBodyOf(cleaned_lines)
  /\ pc' = "fallback"
  /\ UNCHANGED <<text, raw_lines, li, cleaned_lines, skip_mode, i, headers, idx, body_start, body_end, blocks>>
  /\ UNCHANGED <<roleVars, mainVars>>

\* The fallback block, when its body is not empty; then return.
FallbackEmit ==
  /\ pc = "fallback"
  /\ blocks' = IF body # <<>>
                 THEN Append(blocks, [speaker_role |-> "UNKNOWN", text |-> Truncate(body)])
                 ELSE blocks
  /\ pc' = "done"
  /\ UNCHANGED <<text, raw_lines, li, cleaned_lines, skip_mode, i, headers, idx, body_start, body_end, body>>
  /\ UNCHANGED <<roleVars, mainVars>>

\* After the block loop with blocks built: return them.
Return ==
  /\ pc = "build"
  /\ idx > Len(headers)
  /\ blocks # <<>>
  /\ pc' = "done"
  /\ UNCHANGED <<text, raw_lines, li, cleaned_lines, skip_mode, i, headers, idx, body_start, body_end, body, blocks>>
  /\ UNCHANGED <<roleVars, mainVars>>

Next ==
  \/ Enter
  \/ PreprocessLine
  \/ PreprocessDone
  \/ ScanLine
  \/ ScanDone
  \/ BuildBody
  \/ EmitBlock
  \/ FallbackBody
  \/ FallbackEmit
  \/ Return

Spec == Init /\ [][Next]_vars


\* ---------------------------------------------------------- _normalize_role
\* _normalize_role called on a role phrase.
InitRole ==
  /\ raw_roles \in RolePhrases
  /\ role_run = [role |-> "", ret |-> ""]
  /\ rpc = "call"
  /\ text = <<>> /\ pc = "idle" /\ ParseIdle /\ MainIdle

NormalizeRole ==
  /\ rpc = "call"
  /\ role_run' = NormalizeRun(raw_roles)
  /\ rpc' = "ret"
  /\ UNCHANGED <<raw_roles, parseVars, mainVars>>

NextRole == NormalizeRole

SpecRole == InitRole /\ [][NextRole]_vars

\* -------------------------------------------------------------------- main
\* main started on a directory of transcript files.
InitMain ==
  /\ files \in SeqsUpTo(FileTexts, MaxFiles)
  /\ fi = 1 /\ bi = 1 /\ rows = <<>>
  /\ mpc = "files"
  /\ text = <<>> /\ pc = "idle" /\ ParseIdle /\ RoleIdle

\* The file is read: strip it and call parse_transcript.
MainRead ==
  /\ mpc = "files"
  /\ fi <= Len(files)
  /\ text' = Strip(files[fi])
  /\ pc' = "call"
  /\ raw_lines' = <<>> /\ li' = 1 /\ cleaned_lines' = <<>> /\ skip_mode' = FALSE
  /\ i' = 1 /\ headers' = <<>> /\ idx' = 1 /\ body_start' = 1 /\ body_end' = 1
  /\ body' = <<>> /\ blocks' = <<>>
  /\ mpc' = "parse"
  /\ UNCHANGED <<files, fi, bi, rows>>
  /\ UNCHANGED roleVars

\* open() or read() raises: one row with the error, then the next file.
MainReadError ==
  /\ mpc = "files"
  /\ fi <= Len(files)
  /\ rows' = Append(rows, [filename |-> fi, block_index |-> None, speaker_role |-> None,
                           text |-> None, error |-> Some("ReadError")])
  /\ fi' = fi + 1
  /\ UNCHANGED <<files, bi, mpc>>
  /\ UNCHANGED <<parseVars, roleVars>>

\* parse_transcript has returned: start the block loop.
MainParsed ==
  /\ mpc = "parse"
  /\ pc = "done"
  /\ bi' = 1
  /\ mpc' = "blocks"
  /\ UNCHANGED <<files, fi, rows>>
  /\ UNCHANGED <<parseVars, roleVars>>

\* MainBlock whose try encloses the block loop: an exception of the
\* classifier ends the file's blocks without a row.
MainBlock_ExceptionEndsFile ==
  /\ mpc = "blocks"
  /\ bi <= Len(blocks)
  /\ \E outcome \in ClassifierOutcomes :
       IF outcome = "raise"
         THEN /\ fi' = fi + 1
              /\ mpc' = "files"
              /\ UNCHANGED <<bi, rows>>
         ELSE /\ rows' = Append(rows, [filename |-> fi, block_index |-> Some(bi),
                                       speaker_role |-> Some(blocks[bi].speaker_role),
                                       text |-> Some(blocks[bi].text),
                                       error |-> IF outcome = "json_error"
                                                   THEN Some("JSONParseError") ELSE None])
              /\ bi' = bi + 1
              /\ UNCHANGED <<fi, mpc>>
  /\ UNCHANGED files
  /\ UNCHANGED <<parseVars, roleVars>>

\* One iteration of the block loop: classify the block, append its row.
MainBlock ==
  /\ mpc = "blocks"
  /\ bi <= Len(blocks)
  /\ \E outcome \in ClassifierOutcomes :
       LET err == CASE outcome = "raise" -> Some("APICallError")
                    [] outcome = "json_error" -> Some("JSONParseError")
                    [] outcome = "fields" -> None
       IN rows' = Append(rows, [filename |-> fi, block_index |-> Some(bi),
                                speaker_role |-> Some(blocks[bi].speaker_role),
                                text |-> Some(blocks[bi].text), error |-> err])
  /\ bi' = bi + 1
  /\ UNCHANGED <<files, fi, mpc>>
  /\ UNCHANGED <<parseVars, roleVars>>

\* The block loop ends: next file.
MainNextFile ==
  /\ mpc = "blocks"
  /\ bi > Len(blocks)
  /\ fi' = fi + 1
  /\ mpc' = "files"
  /\ UNCHANGED <<files, bi, rows>>
  /\ UNCHANGED <<parseVars, roleVars>>

\* The file loop ends: the rows are saved.
MainSave ==
  /\ mpc = "files"
  /\ fi > Len(files)
  /\ mpc' = "saved"
  /\ UNCHANGED <<files, fi, bi, rows>>
  /\ UNCHANGED <<parseVars, roleVars>>

NextMain ==
  \/ MainRead
  \/ MainReadError
  \/ MainParsed
  \/ MainBlock
  \/ MainNextFile
  \/ MainSave
  \/ Next

SpecMain == InitMain /\ [][NextMain]_vars


\* ------------------------------------------------------------------ claims
\* Shorthands of the claims below.
SpeakerPositions == {headers[k].pos : k \in {j \in 1..Len(headers) : headers[j].kind = "SPEAKER"}}
ScanFinished == pc \in {"build", "emit", "fallback", "done"}

\* The lines of a block text ("\n" is the only line break a block holds).
TextLines(t) == splitlines(t)

\* Position j of cleaned_lines holds a section marker the pre-clean loop
\* rewrote.
IsRewrittenMarker(l) ==
  \E r \in 1..Len(raw_lines) : SectionMatch(raw_lines[r]) /\ l = SectionLine(raw_lines[r])

\* C1: the whole-text UNKNOWN fallback block is emitted only when the header
\* scan found no speaker header; with at least one speaker header, headers
\* with empty bodies contribute nothing and no block holds a header line.
C1_FallbackOnlyWithoutSpeakers ==
  /\ (pc = "fallback" /\ body # <<>>) => SpeakerPositions = {}
  /\ (pc = "done" /\ SpeakerPositions # {}) =>
       \A b \in 1..Len(blocks) : \A p \in SpeakerPositions :
         \A l \in 1..Len(TextLines(blocks[b].text)) :
           TextLines(blocks[b].text)[l] # cleaned_lines[p]

\* C2: a section marker line between two speaker headers is recorded by the
\* header scan as a section mark at its position, and the preceding block
\* holds neither the marker (in either form) nor a line after it.
C2_SectionMarkRecorded ==
  ScanFinished =>
    \A j \in 1..Len(cleaned_lines) :
      ( /\ IsRewrittenMarker(cleaned_lines[j])
        /\ \E p \in SpeakerPositions : p < j
        /\ \E q \in SpeakerPositions : j < q )
      => /\ \E h \in 1..Len(headers) : headers[h].kind = "SECTION" /\ headers[h].pos = j
         /\ pc = "done" =>
              \A b \in 1..Len(blocks) : \A l \in 1..Len(TextLines(blocks[b].text)) :
                ~StartsWith(cleaned_lines[j], TextLines(blocks[b].text)[l])

\* C3: the lines of the returned blocks, in block order, are a subsequence
\* of the lines of the input: each is an input line (compared without the
\* surrounding whitespace that trimming removes; a prefix of one when the
\* block was cut), in the same order, no input line used twice.
BlockLineEntries(b) ==
  LET ls == TextLines(blocks[b].text)
  IN [l \in 1..Len(ls) |->
        [line |-> ls[l],
         cut |-> l = Len(ls) /\ Len(blocks[b].text) = MAX_CHARS_PER_BLOCK]]
RECURSIVE AllBlockLines(_)
AllBlockLines(b) ==
  IF b > Len(blocks) THEN <<>> ELSE BlockLineEntries(b) \o AllBlockLines(b + 1)
SameLine(e, r) ==
  IF e.cut THEN StartsWith(Strip(r), Strip(e.line)) ELSE Strip(e.line) = Strip(r)
RECURSIVE IsSubsequence(_, _)
IsSubsequence(es, rs) ==
  IF es = <<>> THEN TRUE
  ELSE IF rs = <<>> THEN FALSE
  ELSE IF SameLine(Head(es), Head(rs)) THEN IsSubsequence(Tail(es), Tail(rs))
  ELSE IsSubsequence(es, Tail(rs))
C3_OrderPreserved ==
  pc = "done" => IsSubsequence(AllBlockLines(1), raw_lines)


\* The non-separator lines of ls, in order.
RECURSIVE WithoutSeparators(_, _)
WithoutSeparators(ls, k) ==
  IF k > Len(ls) THEN <<>>
  ELSE (IF SeparatorMatch(ls[k]) THEN <<>> ELSE <<ls[k]>>)
         \o WithoutSeparators(ls, k + 1)

\* The first `cap` characters of t, or t when it is no longer than that.
FirstChars(t, cap) == [k \in 1..(IF Len(t) < cap THEN Len(t) ELSE cap) |-> t[k]]

\* C4: with no speaker header found, the result is at most one block: the
\* UNKNOWN block holding the cleaned lines minus separators, joined, trimmed
\* and cut to the cap, when that text is not empty, and no block otherwise
\* (the empty input included).
C4_Degradation ==
  (pc = "done" /\ SpeakerPositions = {}) =>
    LET whole == Strip(JoinLines(WithoutSeparators(cleaned_lines, 1)))
    IN /\ Len(blocks) <= 1
       /\ whole # <<>> =>
            blocks = <<[speaker_role |-> "UNKNOWN",
                        text |-> FirstChars(whole, MAX_CHARS_PER_BLOCK)]>>
       /\ whole = <<>> => blocks = <<>>
       /\ text = <<>> => blocks = <<>>

\* C4 witness: a transcript without speaker headers, holding a separator,
\* came back as one cut UNKNOWN block.
C4_Witness ==
  /\ pc = "done"
  /\ SpeakerPositions = {}
  /\ \E k \in 1..Len(cleaned_lines) : SeparatorMatch(cleaned_lines[k])
  /\ Len(blocks) = 1
  /\ Len(body) > MAX_CHARS_PER_BLOCK

\* C5 shorthands, over the raw lines: what the claim says of each line.
RawSection(k) == SectionMatch(raw_lines[k])
RawBullet(k) == StartsWith(Strip(raw_lines[k]), <<"*", " ">>)
RawEndsSkip(k) ==
  \/ RawSection(k)
  \/ Strip(raw_lines[k]) = <<>>
  \/ SeparatorMatch(raw_lines[k])
\* Skip mode is on after line m: a bullet at or before m, no ending line since.
SkipAfter(m) ==
  \E j \in 1..m : RawBullet(j) /\ \A k \in (j + 1)..m : ~RawEndsSkip(k)
\* Line k stays in the cleaned sequence.
RawKept(k) == RawSection(k) \/ ~(RawBullet(k) \/ SkipAfter(k - 1))
RECURSIVE KeptLines(_, _)
KeptLines(k, m) ==
  IF k > m THEN <<>>
  ELSE (IF RawKept(k)
          THEN <<IF RawSection(k) THEN SectionLine(raw_lines[k]) ELSE raw_lines[k]>>
          ELSE <<>>) \o KeptLines(k + 1, m)

\* C5: a bullet line turns skip mode on; while it is on every line is
\* dropped, up to and including the first blank or separator line, which
\* turns it off; a section marker turns it off and is kept, rewritten.  No
\* bullet line appears in the text of a returned block.
C5_BulletSuppression ==
  /\ pc = "pre" =>
       /\ skip_mode = SkipAfter(li - 1)
       /\ cleaned_lines = KeptLines(1, li - 1)
  /\ pc = "done" =>
       /\ cleaned_lines = KeptLines(1, Len(raw_lines))
       /\ \A k \in 1..Len(cleaned_lines) :
            ~StartsWith(Strip(cleaned_lines[k]), <<"*", " ">>)
       /\ \A b \in 1..Len(blocks) : \A l \in 1..Len(TextLines(blocks[b].text)) :
            ~StartsWith(Strip(TextLines(blocks[b].text)[l]), <<"*", " ">>)

\* C5 witness: a transcript with a bullet, a dropped line after it, the
\* blank or separator line that ended skip mode, and a kept line after that,
\* returned in a block.
C5_Witness ==
  /\ pc = "done"
  /\ blocks # <<>>
  /\ \E j \in 1..Len(raw_lines) :
       /\ RawBullet(j)
       /\ j + 3 <= Len(raw_lines)
       /\ ~RawEndsSkip(j + 1) /\ ~RawBullet(j + 1)
       /\ RawEndsSkip(j + 2) /\ ~RawSection(j + 2)
       /\ cleaned_lines = <<raw_lines[j + 3]>>

\* What a block text must be free of: whitespace at either end, and lines
\* made only of three or more "-" or "=".
NoOuterWhitespace(t) ==
  t # <<>> => (t[1] \notin Whitespace /\ t[Len(t)] \notin Whitespace)
NoSeparatorLine(t) ==
  \A l \in 1..Len(TextLines(t)) : ~SeparatorMatch(TextLines(t)[l])

\* C6 as stated: every block, cut or not, has no whitespace at either end
\* and holds no separator line; read on the blocks of the per-speaker path
\* as they are built and on the fallback block of a transcript without
\* speaker headers.
C6_AlwaysTrimmed ==
  (pc = "build" \/ (pc = "done" /\ SpeakerPositions = {})) =>
    \A b \in 1..Len(blocks) :
      NoOuterWhitespace(blocks[b].text) /\ NoSeparatorLine(blocks[b].text)

\* C6 amended: every returned block starts with a non-whitespace character;
\* the body before the cut, and so every block shorter than the cap, has no
\* whitespace at either end and no separator line.  (A block cut at the cap
\* may end in whitespace.)
C6_TrimmedBeforeCut ==
  /\ pc \in {"emit", "fallback"} => (NoOuterWhitespace(body) /\ NoSeparatorLine(body))
  /\ pc = "done" =>
       \A b \in 1..Len(blocks) :
         /\ blocks[b].text # <<>>
         /\ blocks[b].text[1] \notin Whitespace
         /\ Len(blocks[b].text) < MAX_CHARS_PER_BLOCK =>
              (NoOuterWhitespace(blocks[b].text) /\ NoSeparatorLine(blocks[b].text))

\* C6 witness: a speaker body with a separator inside and whitespace around
\* its lines came back as a block shorter than the cap.
C6_Witness ==
  /\ pc = "done"
  /\ Len(blocks) = 1
  /\ blocks[1].speaker_role = "OPERATOR"
  /\ Len(blocks[1].text) < MAX_CHARS_PER_BLOCK
  /\ Len(cleaned_lines) = 4
  /\ cleaned_lines[2] # Strip(cleaned_lines[2])
  /\ SeparatorMatch(cleaned_lines[3])
  /\ cleaned_lines[4] # Strip(cleaned_lines[4])

\* C7: every returned block has 1 <= len(text) <= MAX_CHARS_PER_BLOCK; a
\* body longer than the cap is cut to exactly its first MAX_CHARS_PER_BLOCK
\* characters, a body within the cap is returned unchanged.
C7_Appended ==
  (pc \in {"emit", "fallback"} /\ blocks' # blocks) =>
    /\ Len(blocks') = Len(blocks) + 1
    /\ SubSeq(blocks', 1, Len(blocks)) = blocks
    /\ LET t == blocks'[Len(blocks')].text
       IN /\ Len(body) > MAX_CHARS_PER_BLOCK =>
               (Len(t) = MAX_CHARS_PER_BLOCK /\ t = SubSeq(body, 1, MAX_CHARS_PER_BLOCK))
          /\ Len(body) <= MAX_CHARS_PER_BLOCK => t = body
C7_Length ==
  \A b \in 1..Len(blocks) :
    1 <= Len(blocks[b].text) /\ Len(blocks[b].text) <= MAX_CHARS_PER_BLOCK
C7_TruncationBound == []C7_Length /\ [][C7_Appended]_vars

\* C7 witness: a body longer than the cap was returned, cut to the cap.
C7_Witness ==
  /\ pc = "done"
  /\ Len(body) > MAX_CHARS_PER_BLOCK
  /\ Len(blocks) = 1
  /\ Len(blocks[1].text) = MAX_CHARS_PER_BLOCK


\* C9 shorthands.  The body range the block loop computes for header k, as
\* <<body_start, body_end>>: the lines body_start .. body_end - 1.
RangeOf(k) ==
  LET bs == BodyStart(cleaned_lines, headers[k].pos)
  IN <<bs, TrimEnd(cleaned_lines, bs, NextMark(cleaned_lines, headers, k))>>
SpeakerIndexes == {k \in 1..Len(headers) : headers[k].kind = "SPEAKER"}
\* The position after header k's body: the next header, or one past the end.
FollowingMark(k) ==
  IF k < Len(headers) THEN headers[k + 1].pos ELSE Len(cleaned_lines) + 1
\* The blocks the speaker headers from k on stand for: role of the header,
\* the non-separator lines up to the next header joined, trimmed and cut,
\* headers with nothing left dropped.
RECURSIVE SpeakerBlocksFrom(_)
SpeakerBlocksFrom(k) ==
  IF k > Len(headers) THEN <<>>
  ELSE
    LET between == [j \in 1..(FollowingMark(k) - headers[k].pos - 1) |->
                      cleaned_lines[headers[k].pos + j]]
        t == Strip(JoinLines(WithoutSeparators(between, 1)))
    IN (IF headers[k].kind = "SPEAKER" /\ t # <<>>
          THEN <<[speaker_role |-> headers[k].role,
                  text |-> FirstChars(t, MAX_CHARS_PER_BLOCK)]>>
          ELSE <<>>) \o SpeakerBlocksFrom(k + 1)

\* C9: header positions are strictly increasing; the body range of the
\* speaker header at p, with the next header (or the end) at q, satisfies
\* p < body_start <= body_end <= q, body_start being p+1, or p+2 when line
\* p+1 is a separator; ranges of distinct speaker headers are disjoint and
\* hold no header line; blocks come in header order with the header's role.
C9_BodyRanges ==
  /\ \A a \in 1..Len(headers) : \A b \in 1..Len(headers) :
       a < b => headers[a].pos < headers[b].pos
  /\ pc = "emit" =>
       LET p == headers[idx].pos
           q == FollowingMark(idx)
           sepNext == p + 1 <= Len(cleaned_lines) /\ SeparatorMatch(cleaned_lines[p + 1])
       IN /\ headers[idx].kind = "SPEAKER"
          /\ p < body_start /\ body_start <= body_end /\ body_end <= q
          /\ body_start = (IF sepNext THEN p + 2 ELSE p + 1)
          /\ <<body_start, body_end>> = RangeOf(idx)
          /\ \A h \in 1..Len(headers) : ~(body_start <= headers[h].pos /\ headers[h].pos < body_end)
  /\ ScanFinished =>
       \A a \in SpeakerIndexes : \A b \in SpeakerIndexes :
         a < b => RangeOf(a)[2] <= RangeOf(b)[1]
  /\ pc \in {"build", "emit"} => blocks = SubSeq(SpeakerBlocksFrom(1), 1, Len(blocks))
  /\ (pc = "build" /\ idx > Len(headers)) => blocks = SpeakerBlocksFrom(1)
  /\ (pc = "done" /\ SpeakerBlocksFrom(1) # <<>>) => blocks = SpeakerBlocksFrom(1)

\* C9 witness: two speaker headers with bodies, returned as two blocks with
\* the two roles, in header order.
C9_Witness ==
  /\ pc = "done"
  /\ Len(headers) = 2
  /\ Len(blocks) = 2
  /\ blocks[1].speaker_role = "CFO"
  /\ blocks[2].speaker_role = "OPERATOR"

\* C8 shorthands: the keyword table of the claim, in its order.
ClaimedRoleTable ==
  << <<StrUpper(<<"c", "h", "i", "e", "f", " ", "e", "x", "e", "c", "u", "t", "i", "v", "e", " ", "o", "f", "f", "i", "c", "e", "r">>), "CEO">>,
     <<StrUpper(<<"c", "h", "i", "e", "f", " ", "f", "i", "n", "a", "n", "c", "i", "a", "l", " ", "o", "f", "f", "i", "c", "e", "r">>), "CFO">>,
     <<StrUpper(<<"c", "e", "o">>), "CEO">>,
     <<StrUpper(<<"c", "f", "o">>), "CFO">>,
     <<StrUpper(<<"a", "n", "a", "l", "y", "s", "t">>), "ANALYST">>,
     <<StrUpper(<<"o", "p", "e", "r", "a", "t", "o", "r">>), "OPERATOR">>,
     <<StrUpper(<<"i", "n", "v", "e", "s", "t", "o", "r", " ", "r", "e", "l", "a", "t", "i", "o", "n", "s">>), "IR">> >>
ClaimedRole(phrase) ==
  LET up == StrUpper(phrase)
      hits == {k \in 1..Len(ClaimedRoleTable) : Contains(up, ClaimedRoleTable[k][1])}
  IN IF hits = {} THEN "UNKNOWN"
     ELSE ClaimedRoleTable[CHOOSE k \in hits : \A j \in hits : k <= j][2]

\* C8: _normalize_role returns the role of the first ROLE_MAP entry, in
\* table order, whose keyword is in the upper-cased phrase, UNKNOWN when
\* there is none or the phrase is empty; the result is one of the six roles
\* and never comes from the separate "ANALYST" check.
C8_RoleLookup ==
  rpc = "ret" =>
    /\ role_run.role = ClaimedRole(raw_roles)
    /\ role_run.role \in {"CEO", "CFO", "ANALYST", "OPERATOR", "IR", "UNKNOWN"}
    /\ role_run.ret # "fallback"
    /\ raw_roles = <<>> => role_run.role = "UNKNOWN"

\* C8 witness: a phrase holding both "CEO" and the earlier keyword
\* "CHIEF FINANCIAL OFFICER" was resolved to CFO.
C8_Witness ==
  /\ rpc = "ret"
  /\ Contains(StrUpper(raw_roles), <<"C", "E", "O">>)
  /\ role_run.role = "CFO"

\* C10 shorthands: the rows of file f, in output order.
RECURSIVE RowsOf(_, _)
RowsOf(f, k) ==
  IF k > Len(rows) THEN <<>>
  ELSE (IF rows[k].filename = f THEN <<rows[k]>> ELSE <<>>) \o RowsOf(f, k + 1)
IsReadErrorRows(rs) ==
  Len(rs) = 1 /\ rs[1].block_index = None /\ rs[1].error # None
IsBlockRows(rs) ==
  \A j \in 1..Len(rs) : rs[j].block_index = Some(j)

\* C10: a file that is read gives one row per parsed block, in block order,
\* block_index 1..k; a classifier exception becomes that row's error and the
\* loop goes on; a file whose read fails gives one row with block_index None
\* and an error, and the next file is processed.
C10_RowsPerBlock ==
  /\ \A k \in 1..Len(rows) : \A j \in 1..Len(rows) :
       k < j => rows[k].filename <= rows[j].filename
  /\ mpc \in {"files", "saved"} =>
       /\ \A f \in 1..(fi - 1) : IsReadErrorRows(RowsOf(f, 1)) \/ IsBlockRows(RowsOf(f, 1))
       /\ (fi > 1 /\ ~IsReadErrorRows(RowsOf(fi - 1, 1))) =>
            /\ Len(RowsOf(fi - 1, 1)) = Len(blocks)
            /\ \A j \in 1..Len(blocks) :
                 RowsOf(fi - 1, 1)[j].text = Some(blocks[j].text)
  /\ mpc = "parse" => RowsOf(fi, 1) = <<>>
  /\ mpc = "blocks" =>
       LET mine == RowsOf(fi, 1)
       IN /\ bi <= Len(blocks) + 1
          /\ Len(mine) = bi - 1
          /\ \A j \in 1..Len(mine) :
               /\ mine[j].block_index = Some(j)
               /\ mine[j].speaker_role = Some(blocks[j].speaker_role)
               /\ mine[j].text = Some(blocks[j].text)
               /\ mine[j].error \in {None, Some("APICallError"), Some("JSONParseError")}
  /\ mpc = "saved" => fi = Len(files) + 1

\* C10 witness: the run ended with a read-error row for the first file and,
\* for the second, a row with a classifier exception followed by another row.
C10_Witness ==
  /\ mpc = "saved"
  /\ Len(files) = 2
  /\ IsReadErrorRows(RowsOf(1, 1))
  /\ Len(RowsOf(2, 1)) = 2
  /\ RowsOf(2, 1)[1].error = Some("APICallError")
  /\ RowsOf(2, 1)[2].error = None

====
